---- MODULE Spec2Model ----
(***************************************************************************)
(* Model of the request-admission engine of src/lib/rate-limiter.ts:       *)
(* checkRateLimit and its helpers, run by several concurrent request       *)
(* handlers (server instances) over the shared Redis store, the shared     *)
(* rateLimitEntry / securityLog tables and a common clock.                 *)
(*                                                                         *)
(* One action per await point of checkRateLimit: between two awaits the    *)
(* JavaScript code runs without interruption, at an await another handler  *)
(* or the clock may step.  Every I/O call may succeed or throw.            *)
(***************************************************************************)
EXTENDS Integers, Sequences, FiniteSets, TLC

(***************************************************************************)
(* Bounds of the model.                                                    *)
(***************************************************************************)
NumProcs == 2      \* concurrent request handlers
ReqLimit == 2      \* rules[0].requests of the modelled config
MaxTicks == 4      \* the clock stops after this many ticks
ConcTicks == 2     \* ... and after this many where handlers run concurrently
TickMs == 500      \* milliseconds per clock tick

Procs == 1..NumProcs

(***************************************************************************)
(* Program constants.                                                      *)
(***************************************************************************)
Max(a, b) == IF a >= b THEN a ELSE b

MsPerSec == 1000           \* Math.ceil(ms / 1000)
BypassResetMs == 60000     \* reset: Date.now() + 60000
FailOpenLimit == 1000      \* limit: 1000 of the outer fail-open result
FailOpenRemaining == 999   \* remaining: 999 of the outer fail-open result
BlockViolations == 3       \* recentViolations >= 3
Infinity == 1000000        \* stands for the JavaScript value Infinity

\* The modelled config has the shape of RATE_LIMIT_CONFIGS.auth_login: one
\* rule and a block twice as long as the window (15 m / 30 m), scaled to the
\* clock of the model.
WindowMs == TickMs
BlockMs == 2 * WindowMs
MaxTime == MaxTicks * TickMs

LoginConfig ==
  [identifier |-> "auth:login",
   rules |-> << [requests |-> ReqLimit, windowMs |-> WindowMs] >>,
   blockDurationMs |-> BlockMs]

Configs == {LoginConfig}

\* RATE_LIMIT_CONFIGS.auth_register: a window as long as its block (1 h / 1 h)
RegisterConfig ==
  [identifier |-> "auth:register",
   rules |-> << [requests |-> ReqLimit + 1, windowMs |-> BlockMs] >>,
   blockDurationMs |-> BlockMs]

\* rateLimits.api of lib/api/rate-limit: Ratelimit.slidingWindow(100, "1 h"),
\* scaled as auth_register is
ApiTokens == ReqLimit + 1
ApiWindowMs == BlockMs

\* A customConfig as checkBatchRateLimit builds one: the identifier of the
\* base config with the requests of its rules divided by the batch size
BatchSize == 2
BatchConfig ==
  [LoginConfig EXCEPT !.rules =
     << [requests |-> Max(1, ReqLimit \div BatchSize), windowMs |-> WindowMs] >>]

\* A customConfig with two rules, the second stricter than the first
BurstConfig ==
  [identifier |-> "op:burst",
   rules |-> << [requests |-> ReqLimit, windowMs |-> WindowMs],
                [requests |-> ReqLimit - 1, windowMs |-> WindowMs] >>,
   blockDurationMs |-> BlockMs]

AllConfigs == {LoginConfig, RegisterConfig, BatchConfig, BurstConfig}
ConfigIds == {cf.identifier : cf \in AllConfigs}

\* userId "" stands for an absent userId (both are falsy in the code).
Contexts == {[userId |-> "u1", ip |-> "ip1", endpoint |-> "/api/auth/login"]}

\* The same user calling from a trusted address, and another user behind
\* the address of the first
TrustedIp == "ip0"
TrustedContext == [userId |-> "u1", ip |-> TrustedIp, endpoint |-> "/api/auth/login"]
OtherContext == [userId |-> "u2", ip |-> "ip1", endpoint |-> "/api/auth/login"]
AllContexts == Contexts \cup {TrustedContext, OtherContext}

\* The array as shipped: empty
RATE_LIMIT_WHITELIST == {}

\* Values of the emergency-bypass header of a request ("" = header absent,
\* headers().get returns null) and of process.env.EMERGENCY_BYPASS_TOKEN.
HeaderValues == {"", "tok"}
EnvToken == "tok"

\* The catalog of rate-limit-config, with its own numbers
MinuteMs == 60 * MsPerSec
HourMs == 60 * MinuteMs

CatalogConfig(identifier, requests, windowMs, blockDurationMs) ==
  [identifier |-> identifier,
   rules |-> << [requests |-> requests, windowMs |-> windowMs] >>,
   blockDurationMs |-> blockDurationMs]

RATE_LIMIT_CONFIGS ==
  [auth_login |-> CatalogConfig("auth:login", 5, 15 * MinuteMs, 30 * MinuteMs),
   auth_register |-> CatalogConfig("auth:register", 3, HourMs, HourMs),
   auth_password_reset |-> CatalogConfig("auth:password_reset", 3, HourMs, HourMs),
   api_user |-> CatalogConfig("api:user", 100, HourMs, 15 * MinuteMs),
   api_admin |-> CatalogConfig("api:admin", 1000, HourMs, 5 * MinuteMs),
   api_security_lead |-> CatalogConfig("api:security_lead", 2000, HourMs, 5 * MinuteMs),
   security_sensitive |-> CatalogConfig("security:sensitive", 10, HourMs, HourMs),
   public |-> CatalogConfig("public", 20, MinuteMs, 5 * MinuteMs)]

OPERATION_RATE_LIMITS ==
  [profile_update |-> CatalogConfig("op:profile_update", 5, HourMs, 30 * MinuteMs),
   password_change |-> CatalogConfig("op:password_change", 3, 24 * HourMs, HourMs),
   email_change |-> CatalogConfig("op:email_change", 2, 24 * HourMs, 2 * HourMs),
   mfa_operations |-> CatalogConfig("op:mfa", 5, HourMs, 30 * MinuteMs)]

\* The map is keyed by the names of the catalog entries
ENDPOINT_SEVERITY ==
  [auth_login |-> "critical", auth_register |-> "high",
   auth_password_reset |-> "high", security_sensitive |-> "critical",
   api_user |-> "medium", api_admin |-> "low", api_security_lead |-> "low",
   public |-> "medium"]

(***************************************************************************)
(* Pure helpers.                                                           *)
(***************************************************************************)
\* Math.ceil(x / d) for integers x and d > 0
CeilDiv(x, d) == -((-x) \div d)

\* A whitelist check that matches no address
isWhitelisted_Never(ip, list) == FALSE

\* RATE_LIMIT_WHITELIST.includes(ip), on the array's current content
isWhitelisted(ip, list) == ip \in list

\* An identifier that leaves the address of a signed-in user out
createRateLimitIdentifier_UserOnly(context) ==
  IF context.userId # ""
    THEN "user:" \o context.userId
    ELSE "ip:" \o context.ip

\* `user:${context.userId}:${context.ip}` or `ip:${context.ip}`
createRateLimitIdentifier(context) ==
  IF context.userId # ""
    THEN "user:" \o context.userId \o ":" \o context.ip
    ELSE "ip:" \o context.ip

\* The key checkBlockStatus reads and handleRateLimitBlock writes
BlockKey(context) == "block:" \o createRateLimitIdentifier(context)

\* The argument of limiter.limit
LimitKey(context) == createRateLimitIdentifier(context)

\* An optional field of a result is the empty set when absent.
Result(success, limit, remaining, reset, blocked, blockUntil, retryAfter, error) ==
  [success |-> success, limit |-> limit, remaining |-> remaining, reset |-> reset,
   blocked |-> blocked, blockUntil |-> blockUntil, retryAfter |-> retryAfter,
   error |-> error]

BypassResult(t) == Result(TRUE, Infinity, Infinity, t + BypassResetMs, {}, {}, {}, {})

BlockedResult(config, blockUntil, t) ==
  Result(FALSE, config.rules[1].requests, 0, blockUntil, {TRUE}, {blockUntil},
         {CeilDiv(blockUntil - t, MsPerSec)}, {})

ExceededResult(lim, t) ==
  Result(FALSE, lim.limit, lim.remaining, lim.reset, {}, {},
         {CeilDiv(lim.reset - t, MsPerSec)}, {})

AdmittedResult(lim) == Result(TRUE, lim.limit, lim.remaining, lim.reset, {}, {}, {}, {})

\* A fail-open result whose limit and remaining changed places
FailOpenResult_Swapped(t) ==
  Result(TRUE, FailOpenRemaining, FailOpenLimit, t + BypassResetMs, {}, {}, {},
         {"Rate limiting temporarily unavailable"})

FailOpenResult(t) ==
  Result(TRUE, FailOpenLimit, FailOpenRemaining, t + BypassResetMs, {}, {}, {},
         {"Rate limiting temporarily unavailable"})

(***************************************************************************)
(* State.                                                                  *)
(***************************************************************************)
VARIABLES
  now,          \* Date.now(), in milliseconds
  redis,        \* the module-level `redis` client is non-null
  pathFilter,   \* the JSON path filter of securityLog.count can match a row
  whitelist,    \* the content of the array RATE_LIMIT_WHITELIST
  apiCounters,  \* Redis: the counters of rateLimits.api of lib/api/rate-limit
  call,         \* a call of a pure function: its arguments and its value
  rateLimiters, \* the cache of Ratelimit instances, per config.identifier
  pc,           \* per handler: the await point it stands at
  req,          \* per handler: the arguments of its call and its bypass header
  blockStatus,  \* per handler: the value checkBlockStatus returned
  existing,     \* per handler: the row findFirst returned ({} = null)
  lim,          \* per handler: the value limiter.limit returned ({} = none)
  res,          \* per handler: the RateLimitResult it returns ({} = none yet)
  counters,     \* Redis: the sliding-window counters, per key and window
  blocks,       \* Redis: the block:<identifier> keys ({} = no key)
  rows,         \* table rateLimitEntry
  logTimes,     \* table securityLog: createdAt of the newest rows, per key
  faulted,      \* history: some I/O call has thrown
  gFast,        \* history: the current fast-store window
  gDb,          \* history: the current rateLimitEntry window
  gViol,        \* history: the latest rule violation
  mark          \* per handler: history of its current call

vars == <<now, redis, pathFilter, whitelist, apiCounters, call, rateLimiters, pc, req, blockStatus, existing, lim, res,
          counters, blocks, rows, logTimes, faulted, gFast, gDb, gViol, mark>>

Identifiers == {createRateLimitIdentifier(c) : c \in AllContexts}
CounterKeys == ConfigIds \X Identifiers
Windows == 0..(MaxTime \div WindowMs)
LogKeys == {<<c.userId, c.endpoint>> : c \in AllContexts}

NoRequest == [context |-> [userId |-> "", ip |-> "", endpoint |-> ""],
              config |-> LoginConfig, header |-> ""]
NotBlocked == [blocked |-> FALSE, blockUntil |-> {}]
NoCall == [fn |-> "", args |-> << >>, out |-> {}]
NoMark == [ledgerThrew |-> FALSE, path |-> "none", ord |-> 0, fresh |-> FALSE, inBlock |-> FALSE,
           isNext |-> FALSE, nextUntil |-> {}, late |-> FALSE, violator |-> FALSE,
           limitThrew |-> FALSE, overQuota |-> FALSE, dbTried |-> FALSE,
           dbOk |-> FALSE, checkedAt |-> 0, findThrew |-> FALSE, events |-> << >>]
NoWindow == [until |-> 0, calls |-> 0, oks |-> 0, fresh |-> FALSE]

\* The state after module load, for the given contents of the whitelist and
\* the given calls of pure functions
Boot(lists, calls) ==
  /\ now = 0
  /\ redis \in BOOLEAN
  /\ pathFilter \in BOOLEAN
  /\ whitelist \in lists
  /\ apiCounters = [w \in Windows |-> 0]
  /\ call \in calls
  /\ rateLimiters = [k \in ConfigIds |-> {}]
  /\ pc = [p \in Procs |-> "idle"]
  /\ req = [p \in Procs |-> NoRequest]
  /\ blockStatus = [p \in Procs |-> NotBlocked]
  /\ existing = [p \in Procs |-> {}]
  /\ lim = [p \in Procs |-> {}]
  /\ res = [p \in Procs |-> {}]
  /\ counters = [k \in CounterKeys |-> [w \in Windows |-> 0]]
  /\ blocks = [id \in Identifiers |-> {}]
  /\ rows = {}
  /\ logTimes = [k \in LogKeys |-> << >>]
  /\ faulted = FALSE
  /\ gFast = NoWindow
  /\ gDb = NoWindow
  /\ gViol = {}
  /\ mark = [p \in Procs |-> NoMark]

Loaded(lists) == Boot(lists, {NoCall})

Init == Loaded({RATE_LIMIT_WHITELIST})

(***************************************************************************)
(* The stores.                                                             *)
(***************************************************************************)
\* Ratelimit.slidingWindow(tokens, window) of @upstash/ratelimit, one atomic
\* script: the count of the previous window, weighted by the part of it the
\* sliding window still covers, plus the count of the current window.
WeightedPrevious(cnt, windowMs, t) ==
  LET w == t \div windowMs
      prev == IF w = 0 THEN 0 ELSE cnt[w - 1]
  IN ((windowMs - (t % windowMs)) * prev) \div windowMs

SlidingWindowLimit(cnt, tokens, windowMs, t) ==
  LET w == t \div windowMs
      wprev == WeightedPrevious(cnt, windowMs, t)
      reset == (w + 1) * windowMs
  IN IF wprev + cnt[w] >= tokens
       THEN [success |-> FALSE, limit |-> tokens, remaining |-> 0,
             reset |-> reset, cnt |-> cnt]
       ELSE [success |-> TRUE, limit |-> tokens,
             remaining |-> Max(0, tokens - (cnt[w] + 1 + wprev)),
             reset |-> reset,
             \* INCRBY on the current key; keys of older windows have expired
             cnt |-> [v \in Windows |-> IF v = w THEN cnt[w] + 1
                                        ELSE IF v + 1 = w THEN cnt[v] ELSE 0]]

\* redis.get(blockKey): the stored number, or null once the key expired
RedisGet(id, t) == {b.until : b \in {b \in blocks[id] : t < b.expireAt}}

\* redis.setex(blockKey, Math.ceil(blockDurationMs / 1000), blockUntil)
RedisSetex(id, ttlSec, value, t) ==
  [blocks EXCEPT ![id] = {[until |-> value, expireAt |-> t + ttlSec * MsPerSec]}]

\* prisma.rateLimitEntry.findFirst: the live rows of this user or this ip on
\* this endpoint.  An undefined userId drops its filter, which then matches
\* every row.  Without orderBy the database picks the row it returns.
LiveRows(context, t) ==
  {r \in rows : /\ (context.userId = "" \/ r.userId = context.userId
                    \/ r.ip = context.ip)
                /\ r.endpoint = context.endpoint
                /\ r.expiresAt > t}

\* A comparison that admits one request more than the rule allows
DbOverLimit_OffByOne(ex, rule) == \E r \in ex : r.attempts > rule.requests

\* existing && existing.attempts >= rule.requests
DbOverLimit(ex, rule) == \E r \in ex : r.attempts >= rule.requests

\* Rows that have expired and that no handler holds are never read or written
\* again by checkRateLimit; the model drops them from the table.
Sweep(rs, held, t) == {r \in rs : r.expiresAt > t \/ r.id \in held}

HeldIds(pcs) == {e.id : e \in UNION {existing[p] : p \in {q \in Procs :
                                pcs[q] \in {"dbupsert", "logexceededdb"}}}}

\* The id the database generates for a created row
NewId == CHOOSE i \in 1..(Cardinality(rows) + 1) : \A r \in rows : r.id # i

\* prisma.rateLimitEntry.upsert({where: {id: existing?.id || "new"}, ...})
DbUpsert(ex, context, rule, t) ==
  IF \E r \in rows : \E e \in ex : r.id = e.id
    THEN {IF \E e \in ex : r.id = e.id
            THEN [r EXCEPT !.attempts = r.attempts + 1] ELSE r : r \in rows}
    ELSE rows \cup {[id |-> NewId, userId |-> context.userId, ip |-> context.ip,
                     endpoint |-> context.endpoint, attempts |-> 1,
                     expiresAt |-> t + rule.windowMs]}

DbAdmittedResult(ex, rule, t) ==
  LET attempts == IF ex = {} THEN 0 ELSE (CHOOSE e \in ex : TRUE).attempts
  IN Result(TRUE, rule.requests, Max(0, rule.requests - (attempts + 1)),
            t + rule.windowMs, {}, {}, {}, {})

DbExceededResult(ex, rule, t) ==
  LET e == CHOOSE e \in ex : TRUE
  IN Result(FALSE, rule.requests, 0, e.expiresAt, {}, {},
            {CeilDiv(e.expiresAt - t, MsPerSec)}, {})

\* A fail-open result that does not say that the database failed
DbFailOpenResult_NoMarker(rule, t) ==
  Result(TRUE, rule.requests, rule.requests - 1, t + rule.windowMs, {}, {}, {}, {})

DbFailOpenResult(rule, t) ==
  Result(TRUE, rule.requests, rule.requests - 1, t + rule.windowMs, {}, {}, {},
         {"Database rate limiting error"})

\* prisma.securityLog.count of checkBlockStatus: the RATE_LIMIT_EXCEEDED rows
\* of this user on this endpoint created in the last blockDurationMs.
RecentViolations(context, config, t) ==
  IF ~pathFilter THEN 0
  ELSE Cardinality({<<k, i>> \in {<<k, i>> \in LogKeys \X (1..BlockViolations) :
                                     i <= Len(logTimes[k])} :
                      /\ (context.userId = "" \/ k[1] = context.userId)
                      /\ k[2] = context.endpoint
                      /\ logTimes[k][i] >= t - config.blockDurationMs})

\* A logSecurityEvent without its try/catch
logSecurityEvent_NoCatch(createOk) == IF createOk THEN "written" ELSE "thrown"

\* logSecurityEvent: prisma.securityLog.create inside try/catch.  Returns
\* "written", "caught" (the create threw and the catch swallowed it) or
\* "thrown" (the error reached the caller).
logSecurityEvent(createOk) == IF createOk THEN "written" ELSE "caught"

\* The table after a create.  Its rows are read only by the count of
\* checkBlockStatus, which runs without Redis and asks whether BlockViolations
\* rows are recent: the model keeps the newest BlockViolations rows per key,
\* and none where no count can read them.
LogAppend(context, t) ==
  LET k == <<context.userId, context.endpoint>>
      s == Append(logTimes[k], t)
  IN IF redis \/ ~pathFilter THEN logTimes
     ELSE [logTimes EXCEPT ![k] = IF Len(s) > BlockViolations THEN Tail(s) ELSE s]

(***************************************************************************)
(* History kept for the properties: which window a counted call fell in.   *)
(***************************************************************************)
CapCalls == ReqLimit + 2

Min(a, b) == IF a <= b THEN a ELSE b

\* The fast-store window after a limiter.limit call that returned r at time t
FastWindowAfter(r, cnt, windowMs, t) ==
  LET new == gFast.until # r.reset
      ok == IF r.success THEN 1 ELSE 0
  IN [until |-> r.reset,
      calls |-> IF new THEN 1 ELSE Min(gFast.calls + 1, CapCalls),
      oks |-> IF new THEN ok ELSE gFast.oks + ok,
      fresh |-> IF new THEN WeightedPrevious(cnt, windowMs, t) = 0 ELSE gFast.fresh]

\* The rateLimitEntry window after a findFirst at time t that found `live`
DbWindowAfterFind(live, t) ==
  IF t < gDb.until
    THEN [gDb EXCEPT !.calls = Min(gDb.calls + 1, CapCalls)]
    ELSE [until |-> gDb.until, calls |-> 1, oks |-> 0, fresh |-> live = {}]

\* ... and after an upsert at time t: a created row opens a window
DbWindowAfterUpsert(ex, windowMs, t) ==
  IF t < gDb.until THEN [gDb EXCEPT !.oks = gDb.oks + 1]
  ELSE IF ex = {} THEN [gDb EXCEPT !.until = t + windowMs, !.oks = 1]
  ELSE gDb

\* The latest rule violation on each config
Violation(t, config) ==
  {v \in gViol : v.config # config.identifier}
    \cup {[config |-> config.identifier, until |-> t + config.blockDurationMs,
            next |-> TRUE]}

ViolationsOn(config) == {v \in gViol : v.config = config.identifier}

(***************************************************************************)
(* checkRateLimit, one action per await.                                   *)
(***************************************************************************)
Finish(p, result) ==
  /\ res' = [res EXCEPT ![p] = {result}]
  /\ pc' = [pc EXCEPT ![p] = "done"]

Goto(p, label) ==
  /\ pc' = [pc EXCEPT ![p] = label]
  /\ UNCHANGED res

\* A request arrives: checkRateLimit(context, configKey, customConfig) runs
\* await headers(), the bypass checks and the config lookup, up to its next
\* await
Arrive(p, io, contexts, configs) ==
  /\ pc[p] = "idle"
  /\ \E c \in contexts, cf \in configs, h \in HeaderValues, ok \in io :
       /\ req' = [req EXCEPT ![p] = [context |-> c, config |-> cf, header |-> h]]
       /\ faulted' = (faulted \/ ~ok)
       /\ IF ~ok THEN Goto(p, "catch")
          ELSE IF h # "" /\ h = EnvToken THEN Finish(p, BypassResult(now))
          ELSE IF isWhitelisted(c.ip, whitelist) THEN Finish(p, BypassResult(now))
          ELSE IF cf.blockDurationMs # 0 THEN Goto(p, "blockcheck")
          ELSE IF redis THEN Goto(p, "limit")
          ELSE Goto(p, "dbfind")
  /\ UNCHANGED <<now, redis, pathFilter, whitelist, apiCounters, call, rateLimiters,
                 blockStatus, existing, lim, counters,
                 blocks, rows, logTimes, gFast, gDb, gViol, mark>>

\* The requests of the deployment with one user, one address and auth_login
Start(p, io) == Arrive(p, io, Contexts, Configs)

\* A checkBlockStatus that reports a block when its read fails
checkBlockStatus_FailClosed(p, ok) ==
  LET id == createRateLimitIdentifier(req[p].context)
      cf == req[p].config
      got == RedisGet(id, now)
  IN IF ~ok THEN [blocked |-> TRUE, blockUntil |-> {now + cf.blockDurationMs}]
     ELSE IF redis
       THEN IF \E b \in got : b > now
              THEN [blocked |-> TRUE, blockUntil |-> got]
              ELSE NotBlocked
     ELSE IF RecentViolations(req[p].context, cf, now) >= BlockViolations
       THEN [blocked |-> TRUE, blockUntil |-> {now + cf.blockDurationMs}]
     ELSE NotBlocked

\* checkBlockStatus: redis.get(blockKey), or securityLog.count without Redis
checkBlockStatus(p, ok) ==
  LET id == createRateLimitIdentifier(req[p].context)
      cf == req[p].config
      got == RedisGet(id, now)
  IN IF ~ok THEN NotBlocked
     ELSE IF redis
       THEN IF \E b \in got : b > now
              THEN [blocked |-> TRUE, blockUntil |-> got]
              ELSE NotBlocked
     ELSE IF RecentViolations(req[p].context, cf, now) >= BlockViolations
       THEN [blocked |-> TRUE, blockUntil |-> {now + cf.blockDurationMs}]
     ELSE NotBlocked

\* A checkRateLimit that counts the call before it looks at the block status
AfterBlockCheck_CountFirst(st) == IF redis THEN "limit" ELSE "dbfind"

\* if (blockStatus.blocked) {...return}; if (!redis) return await
\* checkRateLimitDatabase(...); ... limiter.limit(identifier)
AfterBlockCheck(st) ==
  IF st.blocked THEN "logblocked"
  ELSE IF redis THEN "limit"
  ELSE "dbfind"

BlockCheck(p, io) ==
  /\ pc[p] = "blockcheck"
  /\ \E ok \in io :
       LET st == checkBlockStatus(p, ok)
       IN /\ faulted' = (faulted \/ ~ok)
          /\ blockStatus' = [blockStatus EXCEPT ![p] = st]
          /\ mark' = [mark EXCEPT
                ![p].inBlock = \E v \in ViolationsOn(req[p].config) : now < v.until,
                ![p].late = \E v \in ViolationsOn(req[p].config) : now >= v.until,
                ![p].isNext = \E v \in ViolationsOn(req[p].config) : v.next,
                ![p].nextUntil = {v.until : v \in ViolationsOn(req[p].config)},
                ![p].checkedAt = now,
                ![p].ledgerThrew = ~ok,
                ![p].dbTried = ~redis,
                ![p].dbOk = ~redis /\ ok]
          /\ gViol' = {IF v.config = req[p].config.identifier
                          THEN [v EXCEPT !.next = FALSE] ELSE v : v \in gViol}
          /\ Goto(p, AfterBlockCheck(st))
  /\ UNCHANGED <<now, redis, pathFilter, whitelist, apiCounters, call, rateLimiters,
                 req, existing, lim, counters, blocks,
                 rows, logTimes, gFast, gDb>>

\* What a logSecurityEvent call leaves in securityLog and in the call history
Logged(p, ok) ==
  /\ logTimes' = IF ok THEN LogAppend(req[p].context, now) ELSE logTimes
  /\ faulted' = (faulted \/ ~ok)

MarkDb(p, ok) == [mark EXCEPT ![p].dbTried = TRUE, ![p].dbOk = mark[p].dbOk \/ ok]

\* ENDPOINT_SEVERITY[config.identifier] || RateLimitSeverity.MEDIUM
Severity(config) ==
  IF config.identifier \in DOMAIN ENDPOINT_SEVERITY
    THEN ENDPOINT_SEVERITY[config.identifier]
    ELSE "medium"

\* The details of the event logRateLimitViolation passes to logSecurityEvent
ViolationEvent(config, violationType) ==
  [violationType |-> violationType, severity |-> Severity(config), action |-> ""]

\* ... of the event handleRateLimitBlock passes: no violationType, no severity
BlockEvent == [violationType |-> "", severity |-> "", action |-> "blocked"]

\* ... and of the event of the catch of checkRateLimit
ErrorEvent == [violationType |-> "", severity |-> "", action |-> ""]

\* The call history after a logSecurityEvent call with these details
Emit(p, ok, event) ==
  [MarkDb(p, ok) EXCEPT ![p].events = Append(mark[p].events, event)]

\* await logRateLimitViolation(context, config, "blocked", blockUntil); return
LogBlocked(p, io) ==
  /\ pc[p] = "logblocked"
  /\ \E ok \in io :
       /\ Logged(p, ok)
       /\ mark' = Emit(p, ok, ViolationEvent(req[p].config, "blocked"))
       /\ IF logSecurityEvent(ok) = "thrown" THEN Goto(p, "catch")
          ELSE Finish(p, BlockedResult(req[p].config,
                                       CHOOSE b \in blockStatus[p].blockUntil : TRUE, now))
  /\ UNCHANGED <<now, redis, pathFilter, whitelist, apiCounters, call, rateLimiters,
                 req, blockStatus, existing, lim, counters,
                 blocks, rows, gFast, gDb, gViol>>

\* getRateLimiter: the cached Ratelimit of config.identifier if there is one,
\* else a new one for the first rule of config
getRateLimiter(config) ==
  IF rateLimiters[config.identifier] # {}
    THEN CHOOSE l \in rateLimiters[config.identifier] : TRUE
    ELSE [tokens |-> config.rules[1].requests, windowMs |-> config.rules[1].windowMs]

\* const limiter = getRateLimiter(config);
\* const result = await limiter.limit(identifier)
Limit(p, io) ==
  /\ pc[p] = "limit"
  /\ \E ok \in io :
       LET cf == req[p].config
           rule == cf.rules[1]
           limiter == getRateLimiter(cf)
           key == <<cf.identifier, createRateLimitIdentifier(req[p].context)>>
           r == SlidingWindowLimit(counters[key], limiter.tokens, limiter.windowMs, now)
           win == FastWindowAfter(r, counters[key], limiter.windowMs, now)
       IN /\ faulted' = (faulted \/ ~ok)
          /\ rateLimiters' = [rateLimiters EXCEPT ![cf.identifier] = {limiter}]
          /\ IF ~ok
               THEN /\ Goto(p, "catch")
                    /\ mark' = [mark EXCEPT ![p].limitThrew = TRUE,
                                  ![p].overQuota =
                                     \E row \in LiveRows(req[p].context, now) :
                                        row.attempts >= rule.requests]
                    /\ UNCHANGED <<counters, lim, gFast>>
               ELSE /\ counters' = [counters EXCEPT ![key] = r.cnt]
                    /\ gFast' = win
                    /\ mark' = [mark EXCEPT ![p].path = "fast", ![p].ord = win.calls,
                                  ![p].fresh = win.fresh, ![p].violator = ~r.success]
                    /\ lim' = [lim EXCEPT ![p] = IF r.success THEN {}
                                                 ELSE {[limit |-> r.limit,
                                                        remaining |-> r.remaining,
                                                        reset |-> r.reset]}]
                    /\ IF r.success THEN Finish(p, AdmittedResult(r))
                       ELSE Goto(p, "logexceeded")
  /\ UNCHANGED <<now, redis, pathFilter, whitelist, apiCounters, call, req, blockStatus, existing, blocks, rows,
                 logTimes, gDb, gViol>>

TheLimit(p) == CHOOSE r \in lim[p] : TRUE

\* await logRateLimitViolation(context, config, "exceeded"), then
\* handleRateLimitBlock up to its first await
LogExceeded(p, io) ==
  /\ pc[p] = "logexceeded"
  /\ \E ok \in io :
       /\ Logged(p, ok)
       /\ mark' = Emit(p, ok, ViolationEvent(req[p].config, "exceeded"))
       /\ IF logSecurityEvent(ok) = "thrown" THEN Goto(p, "catch")
          ELSE IF req[p].config.blockDurationMs = 0
            THEN Finish(p, ExceededResult(TheLimit(p), now))
          ELSE Goto(p, "setblock")
  /\ UNCHANGED <<now, redis, pathFilter, whitelist, apiCounters, call, rateLimiters,
                 req, blockStatus, existing, lim, counters,
                 blocks, rows, gFast, gDb, gViol>>

\* handleRateLimitBlock: await redis.setex(blockKey, ttl, blockUntil)
handleRateLimitBlock(p, ok) ==
  LET cf == req[p].config
      blockUntil == now + cf.blockDurationMs
  IN IF redis /\ ok
       THEN RedisSetex(createRateLimitIdentifier(req[p].context),
                       CeilDiv(cf.blockDurationMs, MsPerSec), blockUntil, now)
       ELSE blocks

SetBlock(p, io) ==
  /\ pc[p] = "setblock"
  /\ \E ok \in io :
       /\ faulted' = (faulted \/ ~ok)
       /\ blocks' = handleRateLimitBlock(p, ok)
       /\ gViol' = Violation(now, req[p].config)
       /\ IF ok THEN Goto(p, "logblock")
          ELSE Finish(p, ExceededResult(TheLimit(p), now))
  /\ UNCHANGED <<now, redis, pathFilter, whitelist, apiCounters, call, rateLimiters,
                 req, blockStatus, existing, lim, counters,
                 rows, logTimes, gFast, gDb, mark>>

\* handleRateLimitBlock: await logSecurityEvent({... action: "blocked" ...}),
\* inside the try/catch of handleRateLimitBlock; then checkRateLimit returns
LogBlock(p, io) ==
  /\ pc[p] = "logblock"
  /\ \E ok \in io :
       /\ Logged(p, ok)
       /\ mark' = Emit(p, ok, BlockEvent)
       /\ Finish(p, ExceededResult(TheLimit(p), now))
  /\ UNCHANGED <<now, redis, pathFilter, whitelist, apiCounters, call, rateLimiters,
                 req, blockStatus, existing, lim, counters,
                 blocks, rows, gFast, gDb, gViol>>

\* checkRateLimitDatabase: const existing = await prisma.rateLimitEntry.findFirst
DbFind(p, io) ==
  /\ pc[p] = "dbfind"
  /\ \E ok \in io :
       LET rule == req[p].config.rules[1]
           live == LiveRows(req[p].context, now)
           win == DbWindowAfterFind(live, now)
       IN /\ faulted' = (faulted \/ ~ok)
          /\ mark' = [MarkDb(p, ok) EXCEPT
                        ![p].path = IF ok THEN "db" ELSE "none",
                        ![p].ord = IF ok THEN win.calls ELSE 0,
                        ![p].fresh = ok /\ win.fresh,
                        ![p].findThrew = ~ok]
          /\ IF ~ok
               THEN /\ Finish(p, DbFailOpenResult(rule, now))
                    /\ UNCHANGED <<existing, gDb, gViol>>
               ELSE \E ex \in (IF live = {} THEN {{}} ELSE {{r} : r \in live}) :
                      /\ existing' = [existing EXCEPT ![p] = ex]
                      /\ gDb' = win
                      /\ IF DbOverLimit(ex, rule)
                           THEN /\ Goto(p, "logexceededdb")
                                /\ gViol' = IF req[p].config.blockDurationMs # 0
                                              THEN Violation(now, req[p].config)
                                              ELSE gViol
                           ELSE /\ Goto(p, "dbupsert")
                                /\ UNCHANGED gViol
  /\ UNCHANGED <<now, redis, pathFilter, whitelist, apiCounters, call, rateLimiters,
                 req, blockStatus, lim, counters, blocks,
                 rows, logTimes, gFast>>

\* await logRateLimitViolation(context, config, "exceeded_database"); return
LogExceededDb(p, io) ==
  /\ pc[p] = "logexceededdb"
  /\ \E ok \in io :
       LET rule == req[p].config.rules[1]
       IN /\ Logged(p, ok)
          /\ mark' = [Emit(p, ok, ViolationEvent(req[p].config, "exceeded_database"))
                        EXCEPT ![p].violator = TRUE]
          /\ IF logSecurityEvent(ok) = "thrown"
               THEN Finish(p, DbFailOpenResult(rule, now))
               ELSE Finish(p, DbExceededResult(existing[p], rule, now))
          /\ rows' = Sweep(rows, HeldIds([pc EXCEPT ![p] = "done"]), now)
  /\ UNCHANGED <<now, redis, pathFilter, whitelist, apiCounters, call, rateLimiters,
                 req, blockStatus, existing, lim, counters,
                 blocks, gFast, gDb, gViol>>

\* await prisma.rateLimitEntry.upsert(...); return
DbWrite(p, io) ==
  /\ pc[p] = "dbupsert"
  /\ \E ok \in io :
       LET rule == req[p].config.rules[1]
       IN /\ faulted' = (faulted \/ ~ok)
          /\ mark' = MarkDb(p, ok)
          /\ IF ok
               THEN /\ rows' = Sweep(DbUpsert(existing[p], req[p].context, rule, now),
                                      HeldIds([pc EXCEPT ![p] = "done"]), now)
                    /\ gDb' = DbWindowAfterUpsert(existing[p], rule.windowMs, now)
                    /\ Finish(p, DbAdmittedResult(existing[p], rule, now))
               ELSE /\ Finish(p, DbFailOpenResult(rule, now))
                    /\ rows' = Sweep(rows, HeldIds([pc EXCEPT ![p] = "done"]), now)
                    /\ UNCHANGED gDb
  /\ UNCHANGED <<now, redis, pathFilter, whitelist, apiCounters, call, rateLimiters,
                 req, blockStatus, existing, lim, counters,
                 blocks, logTimes, gFast, gViol>>

\* The catch of checkRateLimit: await logSecurityEvent(...); fail open
Catch(p, io) ==
  /\ pc[p] = "catch"
  /\ \E ok \in io :
       /\ Logged(p, ok)
       /\ mark' = Emit(p, ok, ErrorEvent)
       /\ IF logSecurityEvent(ok) = "thrown" THEN Goto(p, "thrown")
          ELSE Finish(p, FailOpenResult(now))
  /\ UNCHANGED <<now, redis, pathFilter, whitelist, apiCounters, call, rateLimiters,
                 req, blockStatus, existing, lim, counters,
                 blocks, rows, gFast, gDb, gViol>>

\* The caller receives the result; the handler is free for the next request
Return(p) ==
  /\ pc[p] = "done"
  /\ pc' = [pc EXCEPT ![p] = "idle"]
  /\ req' = [req EXCEPT ![p] = NoRequest]
  /\ blockStatus' = [blockStatus EXCEPT ![p] = NotBlocked]
  /\ existing' = [existing EXCEPT ![p] = {}]
  /\ lim' = [lim EXCEPT ![p] = {}]
  /\ res' = [res EXCEPT ![p] = {}]
  /\ mark' = [mark EXCEPT ![p] = NoMark]
  /\ UNCHANGED <<now, redis, pathFilter, whitelist, apiCounters, call, rateLimiters,
                 counters, blocks, rows, logTimes,
                 faulted, gFast, gDb, gViol>>

\* Time passes.  What the passing of time makes unreadable is dropped: Redis
\* keys past their expiry, expired rows no handler holds, securityLog rows
\* older than every block duration, and the history of a closed window.
MaxBlockMs == CHOOSE b \in {cf.blockDurationMs : cf \in AllConfigs} :
                \A cf \in AllConfigs : cf.blockDurationMs <= b

Tick(limit) ==
  /\ now < limit
  /\ now' = now + TickMs
  /\ counters' = [k \in CounterKeys |-> [w \in Windows |->
        IF \E cf \in AllConfigs : cf.identifier = k[1] /\
             (w + 2) * cf.rules[1].windowMs > now'
          THEN counters[k][w] ELSE 0]]
  /\ blocks' = [id \in Identifiers |-> {b \in blocks[id] : now' < b.expireAt}]
  /\ rows' = Sweep(rows, HeldIds(pc), now')
  /\ logTimes' = [k \in LogKeys |->
        SelectSeq(logTimes[k], LAMBDA t : t >= now' - MaxBlockMs)]
  /\ apiCounters' = [w \in Windows |->
        IF (w + 2) * ApiWindowMs > now' THEN apiCounters[w] ELSE 0]
  /\ gFast' = IF now' >= gFast.until THEN NoWindow ELSE gFast
  /\ gDb' = IF now' >= gDb.until THEN NoWindow ELSE gDb
  /\ UNCHANGED <<redis, pathFilter, whitelist, call, rateLimiters, pc, req, blockStatus, existing, lim, res,
                 faulted, gViol, mark>>

\* The code between the last await of a call and its return runs without
\* interruption: nothing else steps while a result is being returned.
Returning == \E q \in Procs : pc[q] = "done"

ConcReady(p) == Returning => pc[p] = "done"

\* Concurrent handlers over healthy stores: every I/O call succeeds
Next ==
  \/ ~Returning /\ Tick(ConcTicks * TickMs)
  \/ \E p \in Procs : ConcReady(p) /\ Start(p, {TRUE})
  \/ \E p \in Procs : ConcReady(p) /\ BlockCheck(p, {TRUE})
  \/ \E p \in Procs : ConcReady(p) /\ LogBlocked(p, {TRUE})
  \/ \E p \in Procs : ConcReady(p) /\ Limit(p, {TRUE})
  \/ \E p \in Procs : ConcReady(p) /\ LogExceeded(p, {TRUE})
  \/ \E p \in Procs : ConcReady(p) /\ SetBlock(p, {TRUE})
  \/ \E p \in Procs : ConcReady(p) /\ LogBlock(p, {TRUE})
  \/ \E p \in Procs : ConcReady(p) /\ DbFind(p, {TRUE})
  \/ \E p \in Procs : ConcReady(p) /\ LogExceededDb(p, {TRUE})
  \/ \E p \in Procs : ConcReady(p) /\ DbWrite(p, {TRUE})
  \/ \E p \in Procs : Return(p)

Spec == Init /\ [][Next]_vars

SeqReady(p) == \A q \in Procs \ {p} : pc[q] = "idle"

\* One request at a time, every I/O call of which may succeed or throw
SeqNext ==
  \/ ~Returning /\ Tick(MaxTime)
  \/ \E p \in Procs : SeqReady(p) /\ Start(p, BOOLEAN)
  \/ \E p \in Procs : SeqReady(p) /\ BlockCheck(p, BOOLEAN)
  \/ \E p \in Procs : SeqReady(p) /\ LogBlocked(p, BOOLEAN)
  \/ \E p \in Procs : SeqReady(p) /\ Limit(p, BOOLEAN)
  \/ \E p \in Procs : SeqReady(p) /\ LogExceeded(p, BOOLEAN)
  \/ \E p \in Procs : SeqReady(p) /\ SetBlock(p, BOOLEAN)
  \/ \E p \in Procs : SeqReady(p) /\ LogBlock(p, BOOLEAN)
  \/ \E p \in Procs : SeqReady(p) /\ DbFind(p, BOOLEAN)
  \/ \E p \in Procs : SeqReady(p) /\ LogExceededDb(p, BOOLEAN)
  \/ \E p \in Procs : SeqReady(p) /\ DbWrite(p, BOOLEAN)
  \/ \E p \in Procs : SeqReady(p) /\ Catch(p, BOOLEAN)
  \/ \E p \in Procs : Return(p)

SeqSpec == Init /\ [][SeqNext]_vars

\* One request at a time over healthy stores, drawn from the given contexts
\* and configs
Serve(contexts, configs) ==
  \/ ~Returning /\ Tick(MaxTime)
  \/ \E p \in Procs : SeqReady(p) /\ Arrive(p, {TRUE}, contexts, configs)
  \/ \E p \in Procs : SeqReady(p) /\ BlockCheck(p, {TRUE})
  \/ \E p \in Procs : SeqReady(p) /\ LogBlocked(p, {TRUE})
  \/ \E p \in Procs : SeqReady(p) /\ Limit(p, {TRUE})
  \/ \E p \in Procs : SeqReady(p) /\ LogExceeded(p, {TRUE})
  \/ \E p \in Procs : SeqReady(p) /\ SetBlock(p, {TRUE})
  \/ \E p \in Procs : SeqReady(p) /\ LogBlock(p, {TRUE})
  \/ \E p \in Procs : SeqReady(p) /\ DbFind(p, {TRUE})
  \/ \E p \in Procs : SeqReady(p) /\ LogExceededDb(p, {TRUE})
  \/ \E p \in Procs : SeqReady(p) /\ DbWrite(p, {TRUE})
  \/ \E p \in Procs : Return(p)

\* A deployment whose whitelist holds a trusted address: the user calls from
\* that address and from another one
TrustedNext == Serve(Contexts \cup {TrustedContext}, Configs)

TrustedSpec == Loaded({{TrustedIp}}) /\ [][TrustedNext]_vars

\* A caller that passes the two-rule customConfig on every call
BurstNext == Serve(Contexts, {BurstConfig})

BurstSpec == Init /\ [][BurstNext]_vars

\* Two users behind one address
SharedIpNext == Serve(Contexts \cup {OtherContext}, Configs)

SharedIpSpec == Init /\ [][SharedIpNext]_vars

\* One user calling two endpoints types, auth_login and auth_register
TwoConfigNext == Serve(Contexts, {LoginConfig, RegisterConfig})

TwoConfigSpec == Init /\ [][TwoConfigNext]_vars

\* Concurrent handlers over healthy stores, all serving auth_register
RaceNext ==
  \/ ~Returning /\ Tick(ConcTicks * TickMs)
  \/ \E p \in Procs : ConcReady(p) /\ Arrive(p, {TRUE}, Contexts, {RegisterConfig})
  \/ \E p \in Procs : ConcReady(p) /\ BlockCheck(p, {TRUE})
  \/ \E p \in Procs : ConcReady(p) /\ LogBlocked(p, {TRUE})
  \/ \E p \in Procs : ConcReady(p) /\ Limit(p, {TRUE})
  \/ \E p \in Procs : ConcReady(p) /\ LogExceeded(p, {TRUE})
  \/ \E p \in Procs : ConcReady(p) /\ SetBlock(p, {TRUE})
  \/ \E p \in Procs : ConcReady(p) /\ LogBlock(p, {TRUE})
  \/ \E p \in Procs : ConcReady(p) /\ DbFind(p, {TRUE})
  \/ \E p \in Procs : ConcReady(p) /\ LogExceededDb(p, {TRUE})
  \/ \E p \in Procs : ConcReady(p) /\ DbWrite(p, {TRUE})
  \/ \E p \in Procs : Return(p)

RaceSpec == Init /\ [][RaceNext]_vars

\* One user served under auth_login and, for batch operations, under the
\* customConfig derived from it
BatchNext == Serve(Contexts, {LoginConfig, BatchConfig})

BatchSpec == Init /\ [][BatchNext]_vars

\* One user served under auth_register, whose window spans two clock steps
RegisterNext == Serve(Contexts, {RegisterConfig})

RegisterSpec == Init /\ [][RegisterNext]_vars

(***************************************************************************)
(* The HTTP layer: createRateLimitResponse, the middleware of              *)
(* createRateLimitMiddleware and checkApiRateLimit.                        *)
(***************************************************************************)
HeaderNames ==
  {"X-RateLimit-Limit", "X-RateLimit-Remaining", "X-RateLimit-Reset",
   "Retry-After", "X-RateLimit-Blocked", "X-RateLimit-Block-Until"}

StatusOk == 200
StatusTooManyRequests == 429

\* The headers of a response: per name the value set, {} when not set
NoHeaders == [h \in HeaderNames |-> {}]

\* response.headers.set of the three X-RateLimit headers
RateLimitHeaders(result) ==
  [NoHeaders EXCEPT !["X-RateLimit-Limit"] = {result.limit},
                    !["X-RateLimit-Remaining"] = {result.remaining},
                    !["X-RateLimit-Reset"] = {result.reset}]

\* NextResponse.next()
NextResponseNext == [status |-> StatusOk, headers |-> NoHeaders]

\* createRateLimitResponse: `if (result.retryAfter)` and
\* `if (result.blockUntil)` are false for an absent field and for 0
createRateLimitResponse(result) ==
  [status |-> StatusTooManyRequests,
   headers |->
     [RateLimitHeaders(result) EXCEPT
        !["Retry-After"] = {s \in result.retryAfter : s # 0},
        !["X-RateLimit-Blocked"] =
           IF result.blocked = {TRUE} THEN {"true"} ELSE {},
        !["X-RateLimit-Block-Until"] =
           IF result.blocked = {TRUE}
             THEN {b \in result.blockUntil : b # 0} ELSE {}]]

\* What an optional callback of the middleware options does
Callbacks == {"none", "resolves", "rejects"}

\* The middleware from `const result = await checkRateLimit(...)` on: both
\* callbacks are awaited inside the try whose catch returns
\* NextResponse.next()
Middleware(result, onViolation, onSuccess) ==
  IF ~result.success
    THEN IF onViolation = "rejects" THEN NextResponseNext
         ELSE createRateLimitResponse(result)
  ELSE IF onSuccess = "rejects" THEN NextResponseNext
  ELSE [status |-> StatusOk, headers |-> RateLimitHeaders(result)]

\* checkApiRateLimit: a middleware without callbacks; only a 429 is kept
checkApiRateLimit(result) ==
  LET response == Middleware(result, "none", "none")
  IN IF response.status = StatusTooManyRequests
       THEN [allowed |-> FALSE, response |-> {response}]
       ELSE [allowed |-> TRUE, response |-> {}]

\* The result of checkRateLimit reaches the middleware, or checkApiRateLimit,
\* which returns; the handler is free for the next request
Respond(p) ==
  /\ pc[p] = "done"
  /\ \E r \in res[p] :
       \/ \E v \in Callbacks, s \in Callbacks :
            call' = [fn |-> "middleware", args |-> <<r, v, s>>,
                     out |-> {Middleware(r, v, s)}]
       \/ call' = [fn |-> "checkApiRateLimit", args |-> <<r, "none", "none">>,
                   out |-> {checkApiRateLimit(r)}]
  /\ pc' = [pc EXCEPT ![p] = "idle"]
  /\ req' = [req EXCEPT ![p] = NoRequest]
  /\ blockStatus' = [blockStatus EXCEPT ![p] = NotBlocked]
  /\ existing' = [existing EXCEPT ![p] = {}]
  /\ lim' = [lim EXCEPT ![p] = {}]
  /\ res' = [res EXCEPT ![p] = {}]
  /\ mark' = [mark EXCEPT ![p] = NoMark]
  /\ UNCHANGED <<now, redis, pathFilter, whitelist, apiCounters, rateLimiters,
                 counters, blocks, rows, logTimes,
                 faulted, gFast, gDb, gViol>>

\* One request at a time through the HTTP layer, over healthy stores
HttpNext ==
  \/ ~Returning /\ Tick(MaxTime)
  \/ \E p \in Procs : SeqReady(p) /\ Start(p, {TRUE})
  \/ \E p \in Procs : SeqReady(p) /\ BlockCheck(p, {TRUE})
  \/ \E p \in Procs : SeqReady(p) /\ LogBlocked(p, {TRUE})
  \/ \E p \in Procs : SeqReady(p) /\ Limit(p, {TRUE})
  \/ \E p \in Procs : SeqReady(p) /\ LogExceeded(p, {TRUE})
  \/ \E p \in Procs : SeqReady(p) /\ SetBlock(p, {TRUE})
  \/ \E p \in Procs : SeqReady(p) /\ LogBlock(p, {TRUE})
  \/ \E p \in Procs : SeqReady(p) /\ DbFind(p, {TRUE})
  \/ \E p \in Procs : SeqReady(p) /\ LogExceededDb(p, {TRUE})
  \/ \E p \in Procs : SeqReady(p) /\ DbWrite(p, {TRUE})
  \/ \E p \in Procs : Respond(p)

HttpSpec == Init /\ [][HttpNext]_vars

\* The arguments GET /api/rate-limits passes to checkRateLimit of
\* lib/api/rate-limit for the modelled user
ApiContext == [userId |-> "u1", ip |-> "ip1", endpoint |-> "/api/rate-limits"]

\* checkRateLimit of lib/api/rate-limit: rateLimits.api.limit, then the upsert
\* of the rateLimitEntry row of (userId, endpoint), then the event of a
\* rejection.  Its Redis client is built from the environment the client of
\* rate-limiter.ts is built from: without it limit() throws before any write.
ApiCheckRateLimit ==
  /\ redis
  /\ \A q \in Procs : pc[q] = "idle"
  /\ LET r == SlidingWindowLimit(apiCounters, ApiTokens, ApiWindowMs, now)
         attempts == r.limit - r.remaining
         mine == {row \in rows : /\ row.userId = ApiContext.userId
                                  /\ row.endpoint = ApiContext.endpoint}
     IN /\ apiCounters' = r.cnt
        /\ rows' = IF mine # {}
                     THEN {IF row \in mine
                             THEN [row EXCEPT !.attempts = attempts,
                                              !.expiresAt = r.reset]
                             ELSE row : row \in rows}
                     ELSE rows \cup {[id |-> NewId, userId |-> ApiContext.userId,
                                      ip |-> ApiContext.ip,
                                      endpoint |-> ApiContext.endpoint,
                                      attempts |-> attempts, expiresAt |-> r.reset]}
        /\ logTimes' = IF r.success THEN logTimes ELSE LogAppend(ApiContext, now)
  /\ UNCHANGED <<now, redis, pathFilter, whitelist, call, rateLimiters, pc, req,
                 blockStatus, existing, lim, res, counters, blocks, faulted,
                 gFast, gDb, gViol, mark>>

\* The engine and the dashboard handler GET /api/rate-limits in one deployment
DashboardNext ==
  \/ Serve(Contexts, Configs)
  \/ ApiCheckRateLimit

DashboardSpec == Init /\ [][DashboardNext]_vars

\* The promise of a database call never settles: checkRateLimitDatabase
\* awaits findFirst and upsert without a timeout, so the call stays there
Hang(p) ==
  /\ pc[p] \in {"dbfind", "dbupsert"}
  /\ pc' = [pc EXCEPT ![p] = "hung"]
  /\ UNCHANGED <<now, redis, pathFilter, whitelist, apiCounters, call,
                 rateLimiters, req, blockStatus, existing, lim, res, counters,
                 blocks, rows, logTimes, faulted, gFast, gDb, gViol, mark>>

\* What the event loop runs for a handler once its awaited call has settled
Resume(p) ==
  \/ BlockCheck(p, {TRUE}) \/ LogBlocked(p, {TRUE}) \/ Limit(p, {TRUE})
  \/ LogExceeded(p, {TRUE}) \/ SetBlock(p, {TRUE}) \/ LogBlock(p, {TRUE})
  \/ DbFind(p, {TRUE}) \/ LogExceededDb(p, {TRUE}) \/ DbWrite(p, {TRUE})
  \/ Return(p)

\* One request at a time; a database call answers or never does
HangNext ==
  \/ Serve(Contexts, Configs)
  \/ \E p \in Procs : Hang(p)

\* Every settled call is resumed: the event loop is fair to each handler
HangSpec ==
  /\ Init /\ [][HangNext]_vars
  /\ \A p \in Procs : WF_vars(SeqReady(p) /\ Resume(p))

(***************************************************************************)
(* The pure functions of the engine, each applied once to arguments drawn  *)
(* at the start.                                                           *)
(***************************************************************************)
\* A property read of a JavaScript object literal: an own property, else a
\* member inherited from Object.prototype, else undefined ({})
ObjectPrototypeKeys == {"constructor", "toString"}

\* An inherited member seen as a RateLimitConfig: a function object, truthy,
\* with none of identifier, rules and blockDurationMs defined
InheritedMember == [identifier |-> "", rules |-> << >>, blockDurationMs |-> 0]

PropertyGet(table, key) ==
  IF key \in DOMAIN table THEN {table[key]}
  ELSE IF key \in ObjectPrototypeKeys THEN {InheritedMember}
  ELSE {}

\* UserRole values; "" stands for an absent role
Roles == {"", "USER", "ADMIN", "SECURITY_LEAD"}

ConfigKeyNames ==
  DOMAIN RATE_LIMIT_CONFIGS \cup DOMAIN OPERATION_RATE_LIMITS
    \cup ObjectPrototypeKeys \cup {"no_such_key"}

\* A resolution that ignores the role
getRateLimitConfig_NoRoles(endpointType, userRole) ==
  LET found == PropertyGet(RATE_LIMIT_CONFIGS, endpointType)
  IN IF found # {} THEN CHOOSE cf \in found : TRUE ELSE RATE_LIMIT_CONFIGS.public

getRateLimitConfig(endpointType, userRole) ==
  IF endpointType = "api_user"
    THEN CASE userRole = "SECURITY_LEAD" -> RATE_LIMIT_CONFIGS.api_security_lead
           [] userRole = "ADMIN" -> RATE_LIMIT_CONFIGS.api_admin
           [] OTHER -> RATE_LIMIT_CONFIGS.api_user
    ELSE LET found == PropertyGet(RATE_LIMIT_CONFIGS, endpointType)
         IN IF found # {} THEN CHOOSE cf \in found : TRUE
            ELSE RATE_LIMIT_CONFIGS.public

\* const config = customConfig || OPERATION_RATE_LIMITS[configKey] ||
\*                getRateLimitConfig(configKey, context.userRole)
ResolveConfig(customConfig, configKey, userRole) ==
  LET op == PropertyGet(OPERATION_RATE_LIMITS, configKey)
  IN IF customConfig # {} THEN CHOOSE cf \in customConfig : TRUE
     ELSE IF op # {} THEN CHOOSE cf \in op : TRUE
     ELSE getRateLimitConfig(configKey, userRole)

\* checkBatchRateLimit: the adjustedConfig it passes on, undefined ({}) when
\* there is no customConfig
AdjustedConfig(customConfig, batchSize) ==
  {[cf EXCEPT !.rules =
      [i \in DOMAIN cf.rules |->
         [cf.rules[i] EXCEPT !.requests = Max(1, cf.rules[i].requests \div batchSize)]]] :
     cf \in customConfig}

\* checkBatchRateLimit -> checkApiRateLimit -> middleware -> checkRateLimit:
\* the config its checkRateLimit call enforces
checkBatchRateLimit(customConfig, configKey, batchSize, userRole) ==
  ResolveConfig(AdjustedConfig(customConfig, batchSize), configKey, userRole)

\* Batch sizes 1..MaxBatchSize; keys that name a config
MaxBatchSize == 3
BatchKeys == DOMAIN RATE_LIMIT_CONFIGS \cup DOMAIN OPERATION_RATE_LIMITS

\* Strings are sequences of characters; {} stands for null or undefined.
MaxStrLen == 3
Chars == {",", " ", "a"}
Strings == UNION {[1..n -> Chars] : n \in 0..MaxStrLen}

\* Headers.get returns a value without leading or trailing whitespace
HeaderStrings == {s \in Strings : s = << >> \/ (s[1] # " " /\ s[Len(s)] # " ")}

Unknown == <<"u", "n", "k", "n", "o", "w", "n">>

\* s.split(",")[0]
FirstField(s) ==
  IF \E i \in 1..Len(s) : s[i] = ","
    THEN SubSeq(s, 1, (CHOOSE i \in 1..Len(s) :
                         s[i] = "," /\ \A j \in 1..(i - 1) : s[j] # ",") - 1)
    ELSE s

\* s.trim()
RECURSIVE Trim(_)
Trim(s) ==
  IF s = << >> THEN s
  ELSE IF s[1] = " " THEN Trim(Tail(s))
  ELSE IF s[Len(s)] = " " THEN Trim(SubSeq(s, 1, Len(s) - 1))
  ELSE s

Truthy(v) == v # {} /\ v # {<< >>}

getClientIP(forwarded, realIP, remoteAddr) ==
  IF Truthy(forwarded) THEN Trim(FirstField(CHOOSE s \in forwarded : TRUE))
  ELSE IF Truthy(realIP) THEN CHOOSE s \in realIP : TRUE
  ELSE IF Truthy(remoteAddr) THEN CHOOSE s \in remoteAddr : TRUE
  ELSE Unknown

\* User ids and addresses as strings over a colon and one other character
IdChars == {"a", ":"}

RECURSIVE Str(_)
Str(s) == IF s = << >> THEN "" ELSE s[1] \o Str(Tail(s))

IdStrings == {Str(s) : s \in UNION {[1..n -> IdChars] : n \in 0..MaxStrLen}}

\* Contexts as the middleware builds them: the address is never undefined
IdContexts ==
  {[userId |-> u, ip |-> i, endpoint |-> "/api/auth/login"] :
     u \in IdStrings, i \in IdStrings}

\* The calls of the pure functions
ResolveCalls ==
  {[fn |-> "resolveConfig", args |-> <<cc, k, r>>, out |-> {}] :
     cc \in {{}, {BatchConfig}}, k \in ConfigKeyNames, r \in Roles}

BatchCalls ==
  {[fn |-> "checkBatchRateLimit", args |-> <<cc, k, n, r>>, out |-> {}] :
     cc \in {{}, {LoginConfig}, {BurstConfig}, {RATE_LIMIT_CONFIGS.api_user}},
     k \in BatchKeys, n \in 1..MaxBatchSize, r \in Roles}

RoleCalls ==
  {[fn |-> "getRateLimitConfig", args |-> <<k, r>>, out |-> {}] :
     k \in ConfigKeyNames, r \in Roles}

ClientIpCalls ==
  {[fn |-> "getClientIP", args |-> <<f, r, a>>, out |-> {}] :
     f \in {{}} \cup {{s} : s \in HeaderStrings},
     r \in {{}, {<< >>}, {<<"a">>}}, a \in {{}, {<<"a", "a">>}}}

IdentifierCalls ==
  {[fn |-> "createRateLimitIdentifier", args |-> <<c>>, out |-> {}] :
     c \in IdContexts}

\* What one request derives from its context
Keys(context) ==
  [identifier |-> createRateLimitIdentifier(context),
   limitKey |-> LimitKey(context), blockKey |-> BlockKey(context)]

Value(c) ==
  CASE c.fn = "createRateLimitIdentifier" -> Keys(c.args[1])
    [] c.fn = "checkBatchRateLimit" ->
         checkBatchRateLimit(c.args[1], c.args[2], c.args[3], c.args[4])
    [] c.fn = "resolveConfig" -> ResolveConfig(c.args[1], c.args[2], c.args[3])
    [] c.fn = "getRateLimitConfig" -> getRateLimitConfig(c.args[1], c.args[2])
    [] c.fn = "getClientIP" -> getClientIP(c.args[1], c.args[2], c.args[3])

\* The function is applied to its arguments
Evaluate ==
  /\ call.fn # "" /\ call.out = {}
  /\ call' = [call EXCEPT !.out = {Value(call)}]
  /\ UNCHANGED <<now, redis, pathFilter, whitelist, apiCounters, rateLimiters,
                 pc, req, blockStatus, existing, lim, res, counters, blocks,
                 rows, logTimes, faulted, gFast, gDb, gViol, mark>>

ResolveNext == Evaluate
ResolveSpec == Boot({RATE_LIMIT_WHITELIST}, ResolveCalls) /\ [][ResolveNext]_vars

RoleNext == Evaluate
RoleSpec == Boot({RATE_LIMIT_WHITELIST}, RoleCalls) /\ [][RoleNext]_vars

BulkNext == Evaluate
BulkSpec == Boot({RATE_LIMIT_WHITELIST}, BatchCalls) /\ [][BulkNext]_vars

IdentifierNext == Evaluate
IdentifierSpec ==
  Boot({RATE_LIMIT_WHITELIST}, IdentifierCalls) /\ [][IdentifierNext]_vars

ClientIpNext == Evaluate
ClientIpSpec == Boot({RATE_LIMIT_WHITELIST}, ClientIpCalls) /\ [][ClientIpNext]_vars

(***************************************************************************)
(* Properties.                                                             *)
(***************************************************************************)
Rule(p) == req[p].config.rules[1]

\* The call of handler p was counted: it passed the bypass and block checks
\* and the store answered
Counted(p) == pc[p] = "done" /\ mark[p].path \in {"fast", "db"}

C2_AtMostNAdmitted ==
  /\ gFast.oks <= LoginConfig.rules[1].requests
  /\ gDb.oks <= LoginConfig.rules[1].requests

\* C3: on the database path, once the calls admitted in a window have all
\* returned, one live row holds the count of all of them.
C3_OneRowCountsAll ==
  (~redis /\ gDb.oks > 0 /\ now < gDb.until /\ \A p \in Procs : pc[p] = "idle") =>
    \A c \in Contexts :
      /\ Cardinality(LiveRows(c, now)) = 1
      /\ \A r \in LiveRows(c, now) : r.attempts = gDb.oks

\* C4: once a rule violation has occurred on a config with blockDurationMs
\* set, every later call whose block check runs before blockUntil is rejected
\* with blocked = true (healthy stores).
C4_BlockedUntilExpiry ==
  \A p \in Procs :
    pc[p] = "done" /\ ~faulted /\ mark[p].inBlock =>
      \A r \in res[p] : ~r.success /\ r.blocked = {TRUE}

\* C5: a rule violation on a config with blockDurationMs set is answered with
\* success = false, blocked absent and retryAfter > 0 (while the window is
\* still open when the call returns), and the very next call of the
\* identifier is answered blocked = true with blockUntil = the time of the
\* violation + blockDurationMs, whichever store served the count.
C5_ViolationCreatesBlock ==
  \A p \in Procs :
    pc[p] = "done" /\ ~faulted =>
      \A r \in res[p] :
        /\ mark[p].violator =>
             /\ ~r.success /\ r.blocked = {} /\ r.retryAfter # {}
             /\ r.reset > now => \A s \in r.retryAfter : s > 0
        /\ mark[p].isNext /\ mark[p].inBlock =>
             r.blocked = {TRUE} /\ r.blockUntil = mark[p].nextUntil

\* C6: while a block of an identifier is active, no step moves its blockUntil
\* later.
C6_BlockNeverExtended ==
  [][\A id \in Identifiers : \A b \in blocks[id] :
       now < b.until => \A c \in blocks'[id] : c.until <= b.until]_vars

C8_FallsBackToDatabase ==
  \A p \in Procs :
    pc[p] = "done" /\ mark[p].limitThrew =>
      /\ mark[p].path = "db"
      /\ mark[p].overQuota => \A r \in res[p] : ~r.success

\* The fast store, and every database call the handler made, failed
FastDown(p) == ~redis \/ mark[p].limitThrew
DbDown(p) == mark[p].dbTried /\ ~mark[p].dbOk

\* C9: a call that finds both the fast store and the database unavailable
\* returns success = true with the error field set.
C9_FailOpenMarked ==
  \A p \in Procs :
    pc[p] = "done" /\ FastDown(p) /\ DbDown(p) =>
      \A r \in res[p] : r.success /\ r.error # {}

C9_Witness ==
  \E p \in Procs :
    /\ pc[p] = "done" /\ ~redis /\ DbDown(p) /\ mark[p].findThrew
    /\ \E r \in res[p] : r.success /\ r.error = {"Database rate limiting error"}

\* C10: whatever fails, checkRateLimit does not throw: every call ends with a
\* result.
C10_NeverThrows ==
  \A p \in Procs :
    /\ pc[p] # "thrown"
    /\ pc[p] = "done" => \E r \in res[p] :
                           r.success \in BOOLEAN /\ r.limit >= 0 /\ r.remaining >= 0
                           /\ r.reset >= 0

\* The limiter threw and so did the write of the event that reports it
C10_Witness ==
  \E p \in Procs :
    /\ pc[p] = "done" /\ redis /\ mark[p].limitThrew /\ DbDown(p)
    /\ res[p] # {}

\* C11: a call whose context.ip is in the whitelist ends at once with
\* success = true, whatever was counted or blocked before, and leaves the
\* counters, the rateLimitEntry rows and the block keys as they were.
C11_WhitelistFrame ==
  [][\A p \in Procs :
       (pc[p] = "idle" /\ pc'[p] # "idle" /\ req'[p].context.ip \in whitelist) =>
         /\ pc'[p] = "done"
         /\ \E r \in res'[p] : r.success
         /\ UNCHANGED <<counters, rows, blocks>>]_vars

\* A whitelisted call of a user whose other address has used up its quota or
\* is blocked
C11_Witness ==
  \E p \in Procs :
    /\ pc[p] = "done" /\ req[p].context.ip \in whitelist
    /\ \E r \in res[p] : r.success /\ r.limit = Infinity
    /\ \/ blocks[createRateLimitIdentifier(CHOOSE c \in Contexts : TRUE)] # {}
       \/ \E row \in rows : row.attempts >= ReqLimit

\* The call of handler p carried the emergency-bypass token
Bypassed(p) == req[p].header # "" /\ req[p].header = EnvToken

\* C12: a call that carries the emergency-bypass token returns success = true
\* with a degraded marker on its result, and an audit event of the bypass was
\* handed to the event sink.
C12_BypassAudited ==
  \A p \in Procs :
    pc[p] = "done" /\ Bypassed(p) /\ ~faulted =>
      /\ \A r \in res[p] : r.success /\ r.error # {}
      /\ mark[p].dbTried

\* C13: on the database path a request is never counted on a row whose
\* expiresAt has passed: a request admitted after the expiry of a window was
\* given a fresh row with attempts = 1 and the full quota (healthy stores).
C13_FreshWindowAfterExpiry ==
  \A p \in Procs :
    pc[p] = "done" /\ mark[p].path = "db" /\ ~faulted =>
      \A r \in res[p] :
        r.success =>
          /\ \A e \in existing[p] : e.expiresAt > now
          /\ existing[p] = {} =>
               /\ r.remaining = Rule(p).requests - 1
               /\ \E row \in rows :
                    /\ row.attempts = 1 /\ row.expiresAt = now + Rule(p).windowMs
                    /\ row.userId = req[p].context.userId
                    /\ row.ip = req[p].context.ip

\* Requests admitted so far in the window the call of handler p was counted in
AdmittedInWindow(p) == IF mark[p].path = "fast" THEN gFast.oks ELSE gDb.oks

\* C14: a counted request is admitted only if it passes every rule of its
\* config: the requests admitted in its window, itself included, exceed the
\* requests of no rule of the list.
C14_AllRulesPass ==
  \A p \in Procs :
    Counted(p) /\ ~faulted =>
      \A r \in res[p] :
        r.success =>
          \A i \in 1..Len(req[p].config.rules) :
            AdmittedInWindow(p) <= req[p].config.rules[i].requests

\* C15: the counter that decides a request, and that the request increments,
\* belongs to the identifier of the request: on the database path the row
\* findFirst returned was created by the same identifier.
C15_OwnCounterDecides ==
  \A p \in Procs :
    pc[p] = "done" /\ mark[p].path = "db" =>
      \A e \in existing[p] :
        createRateLimitIdentifier(e) = createRateLimitIdentifier(req[p].context)

\* C16: a request is rejected as blocked on a config only if its identifier
\* has committed a rule violation on that config.
C16_BlockPerConfig ==
  \A p \in Procs :
    blockStatus[p].blocked => ViolationsOn(req[p].config) # {}

C18_RemainingMatchesCounter ==
  \A p \in Procs :
    Counted(p) /\ ~faulted =>
      \A r \in res[p] :
        r.success =>
          /\ mark[p].path = "fast" /\ mark[p].fresh =>
               r.remaining = Rule(p).requests - mark[p].ord
          /\ mark[p].path = "db" =>
               /\ existing[p] = {} => r.remaining = Max(0, Rule(p).requests - 1)
               /\ \A row \in rows : \A e \in existing[p] :
                    row.id = e.id =>
                      r.remaining = Max(0, Rule(p).requests - row.attempts)

\* C19: the reset of an admitted, counted request on the database path is the
\* expiry of the window it was counted in: the expiresAt of the live row it
\* incremented, or of the row it created.
C19_ResetIsWindowExpiry ==
  \A p \in Procs :
    Counted(p) /\ ~faulted /\ mark[p].path = "db" =>
      \A r \in res[p] :
        r.success =>
          /\ \A e \in existing[p] : e.expiresAt > now => r.reset = e.expiresAt
          /\ existing[p] = {} => \E row \in rows : row.expiresAt = r.reset

\* C20: a call is decided against the first rule of the config it was given:
\* the limit it reports is that rule's requests, and it is admitted only
\* while the counter of its window does not exceed them.
C20_OverrideEnforced ==
  \A p \in Procs :
    Counted(p) /\ ~faulted =>
      \A r \in res[p] :
        /\ r.limit = Rule(p).requests
        /\ r.success /\ mark[p].path = "fast" =>
             LET key == <<req[p].config.identifier,
                          createRateLimitIdentifier(req[p].context)>>
             IN counters[key][now \div Rule(p).windowMs] <= Rule(p).requests

\* C21: every decision made through the database fallback, admitted or
\* rejected, carries a marker in its result that tells it from a decision of
\* the fast path.  RateLimitResult has no field named degraded; its only
\* optional field that could carry the marker is error.
C21_FallbackMarked ==
  \A p \in Procs :
    pc[p] = "done" /\ mark[p].path = "db" /\ ~faulted =>
      \A r \in res[p] : r.error # {}

\* A result that failed open: admitted, with the error field set
FailedOpen(r) == r.success /\ r.error # {}

\* C22: every call that failed open has passed an event to logSecurityEvent,
\* in the catch of checkRateLimit and in the catch of checkRateLimitDatabase.
C22_FailOpenEmits ==
  \A p \in Procs :
    pc[p] = "done" /\ (\E r \in res[p] : FailedOpen(r)) => mark[p].events # << >>

\* C23: a rejected call has emitted exactly one event, of violationType
\* "blocked" when it was rejected as blocked and "exceeded" when it was
\* rejected for exceeding the rule.
C23_OneEventPerRejection ==
  \A p \in Procs :
    pc[p] = "done" /\ ~faulted =>
      \A r \in res[p] :
        ~r.success =>
          /\ Len(mark[p].events) = 1
          /\ mark[p].events[1].violationType =
               IF r.blocked # {} THEN "blocked" ELSE "exceeded"

\* The names of the catalog entries that hold this config
ConfigKeys(config) ==
  {k \in DOMAIN RATE_LIMIT_CONFIGS :
     RATE_LIMIT_CONFIGS[k].identifier = config.identifier}

\* C24: the severity of a violation event is the entry of ENDPOINT_SEVERITY
\* for the catalog entry that was violated.
C24_SeverityOfConfig ==
  \A p \in Procs :
    \A i \in 1..Len(mark[p].events) :
      mark[p].events[i].violationType # "" =>
        \A k \in ConfigKeys(req[p].config) :
          mark[p].events[i].severity = ENDPOINT_SEVERITY[k]

\* The decision a call has taken when it reaches a logSecurityEvent call:
\* the await point it goes to next and the result it returns
Decided(p) ==
  CASE pc[p] = "logblocked" ->
         <<"done", {BlockedResult(req[p].config,
                                  CHOOSE b \in blockStatus[p].blockUntil : TRUE, now)}>>
    [] pc[p] = "logexceeded" ->
         IF req[p].config.blockDurationMs = 0
           THEN <<"done", {ExceededResult(TheLimit(p), now)}>>
           ELSE <<"setblock", {}>>
    [] pc[p] = "logblock" -> <<"done", {ExceededResult(TheLimit(p), now)}>>
    [] pc[p] = "logexceededdb" ->
         <<"done", {DbExceededResult(existing[p], Rule(p), now)}>>
    [] pc[p] = "catch" -> <<"done", {FailOpenResult(now)}>>
    [] OTHER -> <<pc[p], res[p]>>

\* C25: a step that passes an event to logSecurityEvent ends with the decision
\* taken before it, whether the write of the event succeeded or failed.
C25_SinkNeverDecides ==
  [][\A p \in Procs :
       Len(mark'[p].events) > Len(mark[p].events) =>
         <<pc'[p], res'[p]>> = Decided(p)]_vars

C25_Witness ==
  \E p \in Procs :
    /\ pc[p] = "done" /\ redis
    /\ mark[p].events # << >> /\ mark[p].dbTried /\ ~mark[p].dbOk
    /\ \E r \in res[p] : ~r.success

\* C26: a rateLimitEntry row is created or updated only by a step of
\* checkRateLimitDatabase of rate-limiter.ts, the upsert of the engine.
C26_OnlyEngineWrites ==
  [][\A r \in rows' \ rows :
       \E p \in Procs : pc[p] = "dbupsert" /\ pc'[p] = "done"]_vars

\* C27: every call of checkRateLimit eventually returns a result, also when
\* a store call it awaits never completes.
C27_EveryCallReturns ==
  \A p \in Procs : (pc[p] # "idle") ~> (pc[p] = "done")

\* C28: config resolution is total: for every key and role (and no
\* customConfig) checkRateLimit obtains a config with a non-empty rules
\* list, and a key that is in neither table resolves to the public config.
C28_ResolutionTotal ==
  call.fn = "resolveConfig" /\ call.args[1] = {} =>
    \A cf \in call.out :
      /\ Len(cf.rules) >= 1
      /\ call.args[2] \notin (DOMAIN RATE_LIMIT_CONFIGS
                                \cup DOMAIN OPERATION_RATE_LIMITS) =>
           cf = RATE_LIMIT_CONFIGS.public

Requests(config) == config.rules[1].requests

\* C29: the role changes the value of getRateLimitConfig only for the key
\* api_user, where USER or no role, ADMIN and SECURITY_LEAD select tiers of
\* 100 < 1000 < 2000 requests; for every other key all roles get one config.
C29_RoleOnlyForApiUser ==
  call.fn = "getRateLimitConfig" =>
    \A cf \in call.out :
      LET key == call.args[1]
          role == call.args[2]
      IN /\ key # "api_user" =>
              \A other \in Roles : getRateLimitConfig(key, other) = cf
         /\ key = "api_user" =>
              /\ role \in {"", "USER"} => Requests(cf) = 100
              /\ role = "ADMIN" => Requests(cf) = 1000
              /\ role = "SECURITY_LEAD" => Requests(cf) = 2000
              /\ \A other \in Roles \ {role} :
                   (other \in {"", "USER"} /\ role \in {"", "USER"})
                     \/ getRateLimitConfig(key, other) # cf

C29_Witness ==
  /\ call.fn = "getRateLimitConfig"
  /\ call.args = <<"api_user", "ADMIN">>
  /\ call.out = {RATE_LIMIT_CONFIGS.api_admin}

\* C30: getClientIP never returns the empty string, and returns "unknown"
\* when none of x-forwarded-for, x-real-ip and request.ip gives an address.
C30_IpNeverEmpty ==
  call.fn = "getClientIP" =>
    \A ip \in call.out :
      /\ ip # << >>
      /\ (\A i \in 1..3 : ~Truthy(call.args[i])) => ip = Unknown

C39_IdentifierInjective ==
  call.fn = "createRateLimitIdentifier" =>
    \A k \in call.out :
      \A c \in IdContexts :
        (c.userId # call.args[1].userId \/ c.ip # call.args[1].ip) =>
          createRateLimitIdentifier(c) # k.identifier

\* C34: a call rejected as blocked consumes no quota: no step it takes once
\* checkBlockStatus has reported a block changes a fast-store counter or a
\* rateLimitEntry row, and it returns without having reached limiter.limit,
\* findFirst or upsert.
C34_BlockedConsumesNothing ==
  /\ [][\A p \in Procs :
          blockStatus[p].blocked /\ pc'[p] # pc[p] =>
            counters' = counters /\ rows' = rows]_vars
  /\ [](\A p \in Procs :
          pc[p] = "done" /\ (\E r \in res[p] : r.blocked = {TRUE}) =>
            /\ mark[p].path = "none"
            /\ existing[p] = {} /\ lim[p] = {})

\* A blocked result is returned while the counter of the caller is not empty
C34_Witness ==
  \E p \in Procs :
    /\ pc[p] = "done"
    /\ \E r \in res[p] : r.blocked = {TRUE}
    /\ \E w \in Windows :
         counters[<<req[p].config.identifier,
                    createRateLimitIdentifier(req[p].context)>>][w] > 0

\* C35: when the read of the block ledger fails, checkBlockStatus reports
\* "not blocked" and checkRateLimit goes on to the counter check.
C35_LedgerFailureNotBlocked ==
  /\ [][\A p \in Procs :
          pc[p] = "blockcheck" /\ mark'[p].ledgerThrew =>
            /\ ~blockStatus'[p].blocked
            /\ pc'[p] = IF redis THEN "limit" ELSE "dbfind"]_vars
  /\ [](\A p \in Procs :
          mark[p].ledgerThrew =>
            /\ ~blockStatus[p].blocked
            /\ \A r \in res[p] : r.blocked = {})

\* The read fails while a live block is stored, and the call stands at the
\* counter check
C35_Witness ==
  \E p \in Procs :
    /\ mark[p].ledgerThrew /\ pc[p] = "limit"
    /\ \E b \in RedisGet(createRateLimitIdentifier(req[p].context), now) : b > now

\* C36: in every result, blocked = true comes with success = false,
\* remaining = 0, a blockUntil and reset = blockUntil; and success = false
\* comes with a retryAfter that is at least 1.
C36_ResultShape ==
  \A p \in Procs :
    pc[p] = "done" =>
      \A r \in res[p] :
        /\ r.blocked = {TRUE} =>
             /\ ~r.success /\ r.remaining = 0
             /\ r.blockUntil # {} /\ r.reset \in r.blockUntil
        /\ ~r.success => r.retryAfter # {} /\ \A s \in r.retryAfter : s >= 1

\* C37: every result that is not a bypass has 0 <= remaining <= limit.
C37_RemainingWithinLimit ==
  \A p \in Procs :
    pc[p] = "done" =>
      \A r \in res[p] :
        r.limit # Infinity => 0 <= r.remaining /\ r.remaining <= r.limit

\* A fail-open result of the catch of checkRateLimit is returned
C37_Witness ==
  \E p \in Procs :
    /\ pc[p] = "done"
    /\ \E r \in res[p] : r.error # {} /\ r.limit = FailOpenLimit /\ r.success

\* C32: every rejected decision returned over HTTP is a 429 response with a
\* Retry-After header, and with X-RateLimit-Blocked: true and
\* X-RateLimit-Block-Until when the caller is blocked; every admitted
\* decision carries X-RateLimit-Limit, X-RateLimit-Remaining and
\* X-RateLimit-Reset.
C32_ResponseHeaders ==
  call.fn = "middleware" =>
    \A response \in call.out :
      LET result == call.args[1]
      IN IF ~result.success
           THEN /\ response.status = StatusTooManyRequests
                /\ response.headers["Retry-After"] # {}
                /\ result.blocked = {TRUE} =>
                     /\ response.headers["X-RateLimit-Blocked"] = {"true"}
                     /\ response.headers["X-RateLimit-Block-Until"] # {}
           ELSE /\ response.headers["X-RateLimit-Limit"] # {}
                /\ response.headers["X-RateLimit-Remaining"] # {}
                /\ response.headers["X-RateLimit-Reset"] # {}

\* C33: whenever checkRateLimit returns success = false, the middleware
\* returns the 429 response and checkApiRateLimit returns allowed = false,
\* whatever onViolation does.
C33_RejectionReachesCaller ==
  /\ call.fn = "middleware" /\ ~call.args[1].success =>
       \A response \in call.out :
         response = createRateLimitResponse(call.args[1])
  /\ call.fn = "checkApiRateLimit" /\ ~call.args[1].success =>
       \A answer \in call.out : ~answer.allowed

\* C38: for every batchSize >= 1, checkBatchRateLimit enforces, for each rule
\* of the config the same call would have without batching, the limit
\* max(1, floor(requests / batchSize)), with a customConfig and when the
\* config is resolved from configKey alone.
C38_BatchLimitDivided ==
  call.fn = "checkBatchRateLimit" =>
    \A enforced \in call.out :
      LET base == ResolveConfig(call.args[1], call.args[2], call.args[4])
          batchSize == call.args[3]
      IN /\ DOMAIN enforced.rules = DOMAIN base.rules
         /\ \A i \in DOMAIN base.rules :
              enforced.rules[i].requests =
                Max(1, base.rules[i].requests \div batchSize)

====
